---- MODULE Spec2Model ----
(***************************************************************************)
(* Faith's phylogenetic diversity (PD) over a dense-indexed rooted tree:   *)
(* the single-guild computation, the batch computation with one shared     *)
(* marker buffer, the two label-resolution front ends and the binary tree  *)
(* dump, as they are written in src/Stage_4 and in the 1000-guild          *)
(* benchmark.                                                              *)
(*                                                                         *)
(* Node ids are 0 .. num_nodes-1 as in the code.  CT_NODE_T is an unsigned *)
(* 32-bit integer; a value v of that type is represented here by the       *)
(* signed integer with the same 32 bits, so NULL_NODE = (CT_NODE_T)(-1) =  *)
(* 0xFFFFFFFF is -1.  Strings are sequences of character codes.  Edge      *)
(* lengths are integer-valued floats small enough that every sum the code  *)
(* forms is exact in double precision.                                     *)
(***************************************************************************)
EXTENDS Integers, Sequences, FiniteSets, TLC

\* ------------------------------------------------------------------ bounds
MaxNodes == 5
MaxGuildLen == 3
MaxGuilds == 2
MaxLen == 1
LenBase == 4

\* ------------------------------------------------------- program constants
NULL_NODE == -1
SEMI == 59
npos == -1

VARIABLES
    prog,          \* which executable / entry point this run is
    pc,            \* position in it
    tree,          \* the compact_tree: num_nodes, parent, children, label, edge_length
    label_to_node, \* benchmark main: unordered_map<string, CT_NODE_T>
    species,       \* the guild inputs read so far (label strings / argv labels)
    guilds,        \* the leaf-id vector resolved for each of them
    results,       \* vector<double> results
    visited,       \* calculate_faiths_pd_batch: the shared vector<uint8_t>
    leaf_nodes,    \* batch: the guild being walked
    mrca,          \* batch: its MRCA
    li,            \* batch: index of the leaf being walked (0-based)
    current,       \* batch: the node the walk stands on
    total_pd,      \* batch: running total
    ops,           \* batch: tree operations and marker writes made for this guild
    leaf_set,      \* find_mrca: its argument
    rest,          \* find_mrca: the elements not yet folded in
    exit_code,     \* command-line main: its return value, NULL_NODE while running
    printed,       \* command-line main: the values written to stdout
    out,           \* dump: the bytes written to the output file
    dump_i,        \* dump: the node loop's i
    decoded,       \* what a reader of the interchange format gets from out
    runs,          \* PD-only benchmark: what each marker variant returned and marked
    call           \* final local state of the last calculate_faiths_pd_optimized call

vars == <<prog, pc, tree, label_to_node, species, guilds, results, visited,
          leaf_nodes, mrca, li, current, total_pd, ops, leaf_set, rest, exit_code,
          printed, out, dump_i, decoded, runs, call>>

\* ----------------------------------------------------------------- helpers
Range(s) == {s[i] : i \in 1..Len(s)}

RECURSIVE SortedSeq(_)
SortedSeq(S) ==
    IF S = {} THEN <<>>
    ELSE LET m == CHOOSE x \in S : \A y \in S : x <= y
         IN <<m>> \o SortedSeq(S \ {m})

RECURSIVE Pow(_, _)
Pow(b, k) == IF k = 0 THEN 1 ELSE b * Pow(b, k - 1)

SeqsUpTo(S, k) == UNION {[1..m -> S] : m \in 0..k}

RECURSIVE SumOver(_, _)
SumOver(f, S) ==
    IF S = {} THEN 0
    ELSE LET x == CHOOSE y \in S : TRUE IN f[x] + SumOver(f, S \ {x})

\* -------------------------------------------------------------- the tree
\* The loader numbers the root 0 and every child after its parent.
ParentMaps(n) ==
    {p \in [0..n-1 -> -1..n-2] :
        /\ p[0] = NULL_NODE
        /\ \A i \in 1..n-1 : p[i] >= 0 /\ p[i] < i}

ChildrenOf(p, n) == [i \in 0..n-1 |-> SortedSeq({j \in 1..n-1 : p[j] = i})]

\* Leaves carry a two-character label "t<id>", internal nodes the empty label.
LeafLabel(i) == <<116, 48 + i>>

UnknownLabel == <<122, 122>>

\* Edge lengths: either distinct powers of LenBase (so that a total tells which
\* edges were added and how often), or the same length c on every edge.
EdgeLengthChoices(n) ==
    {[i \in 0..n-1 |-> Pow(LenBase, i)]} \cup {[i \in 0..n-1 |-> c] : c \in 1..MaxLen}

MkTree(n, p, e) ==
    LET ch == ChildrenOf(p, n) IN
    [num_nodes |-> n,
     parent |-> p,
     children |-> ch,
     label |-> [i \in 0..n-1 |-> IF ch[i] = <<>> THEN LeafLabel(i) ELSE <<>>],
     edge_length |-> e]

Trees ==
    UNION {{MkTree(n, p, e) : p \in ParentMaps(n), e \in EdgeLengthChoices(n)} :
           n \in 1..MaxNodes}

get_num_nodes == tree.num_nodes
get_parent(i) == tree.parent[i]
get_edge_length(i) == tree.edge_length[i]
get_label(i) == tree.label[i]
get_children(i) == tree.children[i]
is_leaf(i) == tree.children[i] = <<>>

Nodes == 0..get_num_nodes-1
Leaves == {i \in Nodes : is_leaf(i)}
get_num_leaves == Cardinality(Leaves)

\* ------------------------------------------------------ ancestry (reference)
RECURSIVE AncestorsOrSelf(_)
AncestorsOrSelf(x) ==
    IF x = NULL_NODE THEN {} ELSE {x} \cup AncestorsOrSelf(get_parent(x))

IsCommonAncestor(a, S) == \A x \in S : a \in AncestorsOrSelf(x)

\* a is a common ancestor and no other common ancestor lies properly below it
IsDeepestCommonAncestor(a, S) ==
    /\ IsCommonAncestor(a, S)
    /\ \A b \in Nodes : (b # a /\ IsCommonAncestor(b, S)) => a \notin AncestorsOrSelf(b)

\* nodes on the parent chain from x (inclusive) up to m (exclusive)
PathBelow(x, m) == {y \in AncestorsOrSelf(x) : y # m /\ m \in AncestorsOrSelf(y)}

\* ------------------------------------------------------------- find_mrca
\* The pairwise step of the fold: record the ancestors of a (a included), then
\* walk b toward the root until a recorded node is hit.
RECURSIVE FirstRecorded(_, _)
FirstRecorded(recorded, b) ==
    IF b = NULL_NODE THEN NULL_NODE
    ELSE IF b \in recorded THEN b
    ELSE FirstRecorded(recorded, get_parent(b))

\* mutant: a itself is not recorded
PairwiseAncestor_ProperOnly(a, b) == FirstRecorded(AncestorsOrSelf(a) \ {a}, b)

PairwiseAncestor(a, b) == FirstRecorded(AncestorsOrSelf(a), b)

\* The fold over the remaining elements, taken here in increasing id order.
RECURSIVE FoldMrca(_, _)
FoldMrca(cur, remaining) ==
    IF remaining = {} THEN cur
    ELSE LET L == CHOOSE x \in remaining : \A y \in remaining : x <= y
         IN FoldMrca(PairwiseAncestor(cur, L), remaining \ {L})

find_mrca(leaf_ids) ==
    IF leaf_ids = {} THEN NULL_NODE
    ELSE LET first == CHOOSE x \in leaf_ids : \A y \in leaf_ids : x <= y
         IN FoldMrca(first, leaf_ids \ {first})

\* ------------------------------------------ calculate_faiths_pd_optimized
\* Local state of one call.  mrca_calls, reads and writes count the find_mrca
\* calls, the get_parent / get_edge_length reads and the marker writes the
\* call made; fault is set when the walk leaves the tree (get_parent of the
\* root, then an index out of range).
ReturnedEarly ==
    [total_pd |-> 0, mrca |-> NULL_NODE, visited |-> <<>>,
     mrca_calls |-> 0, reads |-> 0, writes |-> 0, fault |-> FALSE]

\* mutant: the marker is not consulted, every pass adds the edge
RECURSIVE WalkToMrca_NoMarker(_, _)
WalkToMrca_NoMarker(st, cur) ==
    IF cur = st.mrca THEN st
    ELSE IF cur = NULL_NODE THEN [st EXCEPT !.fault = TRUE]
    ELSE WalkToMrca_NoMarker(
             [st EXCEPT !.total_pd = @ + get_edge_length(cur),
                        !.visited[cur] = 1,
                        !.reads = @ + 2,
                        !.writes = @ + 1],
             get_parent(cur))

\* mutant: the walk goes on to the root instead of stopping at the MRCA
RECURSIVE WalkToMrca_ToRoot(_, _)
WalkToMrca_ToRoot(st, cur) ==
    IF get_parent(cur) = NULL_NODE THEN st
    ELSE LET st1 == IF st.visited[cur] = 0
                    THEN [st EXCEPT !.total_pd = @ + get_edge_length(cur),
                                    !.visited[cur] = 1,
                                    !.reads = @ + 1,
                                    !.writes = @ + 1]
                    ELSE st
         IN WalkToMrca_ToRoot([st1 EXCEPT !.reads = @ + 1], get_parent(cur))

\* while (current != mrca) { if (!visited[current]) {...} current = parent }
RECURSIVE WalkToMrca(_, _)
WalkToMrca(st, cur) ==
    IF cur = st.mrca THEN st
    ELSE IF cur = NULL_NODE THEN [st EXCEPT !.fault = TRUE]
    ELSE LET st1 == IF st.visited[cur] = 0
                    THEN [st EXCEPT !.total_pd = @ + get_edge_length(cur),
                                    !.visited[cur] = 1,
                                    !.reads = @ + 1,
                                    !.writes = @ + 1]
                    ELSE st
         IN WalkToMrca([st1 EXCEPT !.reads = @ + 1], get_parent(cur))

\* mutant: the loop over the leaves starts at the second one
RECURSIVE WalkLeaves_SkipFirst(_, _, _)
WalkLeaves_SkipFirst(st, leaves, i) ==
    IF i > Len(leaves) \/ st.fault THEN st
    ELSE IF i = 1 THEN WalkLeaves_SkipFirst(st, leaves, 2)
    ELSE WalkLeaves_SkipFirst(WalkToMrca(st, leaves[i]), leaves, i + 1)

\* mutant: the total is declared inside the loop, so it restarts with each leaf
RECURSIVE WalkLeaves_TotalPerLeaf(_, _, _)
WalkLeaves_TotalPerLeaf(st, leaves, i) ==
    IF i > Len(leaves) \/ st.fault THEN st
    ELSE WalkLeaves_TotalPerLeaf(
             WalkToMrca([st EXCEPT !.total_pd = 0], leaves[i]), leaves, i + 1)

\* for (CT_NODE_T leaf : leaf_nodes)
RECURSIVE WalkLeaves(_, _, _)
WalkLeaves(st, leaves, i) ==
    IF i > Len(leaves) \/ st.fault THEN st
    ELSE WalkLeaves(WalkToMrca(st, leaves[i]), leaves, i + 1)

\* mutant: only the empty list returns early
PdCall_OnlyEmptyChecked(leaves) ==
    IF Len(leaves) = 0 THEN ReturnedEarly
    ELSE LET m == find_mrca(Range(leaves))
             st0 == [total_pd |-> 0, mrca |-> m,
                     visited |-> [i \in Nodes |-> 0],
                     mrca_calls |-> 1, reads |-> 0, writes |-> 0, fault |-> FALSE]
         IN WalkLeaves(st0, leaves, 1)

PdCall(leaves) ==
    IF Len(leaves) = 0 THEN ReturnedEarly
    ELSE IF Len(leaves) = 1 THEN ReturnedEarly
    ELSE LET m == find_mrca(Range(leaves))
             st0 == [total_pd |-> 0, mrca |-> m,
                     visited |-> [i \in Nodes |-> 0],
                     mrca_calls |-> 1, reads |-> 0, writes |-> 0, fault |-> FALSE]
         IN WalkLeaves(st0, leaves, 1)

calculate_faiths_pd_optimized(leaves) == PdCall(leaves).total_pd

\* ------------------------------------------------------------- strings
\* s.find(";;"): the 0-based position of the first ";;" in s, or npos
RECURSIVE FindFrom(_, _)
FindFrom(s, k) ==
    IF k + 1 >= Len(s) THEN npos
    ELSE IF s[k + 1] = SEMI /\ s[k + 2] = SEMI THEN k
    ELSE FindFrom(s, k + 1)

find(s) == FindFrom(s, 0)

\* s.substr(pos, len) and s.substr(pos), 0-based
substr(s, pos, len) == SubSeq(s, pos + 1, pos + len)
substr_from(s, pos) == SubSeq(s, pos + 1, Len(s))

\* The species_list field of a guild record: the labels joined by ";;".
RECURSIVE JoinLabels(_)
JoinLabels(labels) ==
    IF labels = <<>> THEN <<>>
    ELSE IF Len(labels) = 1 THEN labels[1]
    ELSE labels[1] \o <<SEMI, SEMI>> \o JoinLabels(Tail(labels))

\* The labels a guild may name: those of the tree's leaves and one that is not
\* in the tree.
GuildLabels == {get_label(i) : i \in Leaves} \cup {UnknownLabel}

\* ------------------------------------------- benchmark main (1000 guilds)
\* for (i = 0; i < num_nodes; i++) if (is_leaf(i)) label_to_node[label(i)] = i;
RECURSIVE BuildLabelIndex(_, _)
BuildLabelIndex(i, m) ==
    IF i >= get_num_nodes THEN m
    ELSE BuildLabelIndex(i + 1,
            IF is_leaf(i)
            THEN [l \in DOMAIN m \cup {get_label(i)} |->
                     IF l = get_label(i) THEN i ELSE m[l]]
            ELSE m)

\* mutant: label_to_node[species] without the find() test, which yields the
\* default id 0 for a label that is not in the map
RECURSIVE ParseSpecies_NoFindTest(_, _)
ParseSpecies_NoFindTest(remaining, nodes) ==
    LET pos == find(remaining)
        At(sp) == IF sp \in DOMAIN label_to_node THEN label_to_node[sp] ELSE 0
    IN IF pos # npos
       THEN ParseSpecies_NoFindTest(substr_from(remaining, pos + 2),
                                    Append(nodes, At(substr(remaining, 0, pos))))
       ELSE IF remaining # <<>> THEN Append(nodes, At(remaining)) ELSE nodes

\* while ((pos = remaining.find(";;")) != npos) {...}; then the last species
RECURSIVE ParseSpecies(_, _)
ParseSpecies(remaining, nodes) ==
    LET pos == find(remaining) IN
    IF pos # npos
    THEN LET sp == substr(remaining, 0, pos)
         IN ParseSpecies(substr_from(remaining, pos + 2),
                         IF sp \in DOMAIN label_to_node
                         THEN Append(nodes, label_to_node[sp])
                         ELSE nodes)
    ELSE IF remaining # <<>> /\ remaining \in DOMAIN label_to_node
         THEN Append(nodes, label_to_node[remaining])
         ELSE nodes

NoCall == ReturnedEarly

BenchBuildIndex ==
    /\ prog = "bench" /\ pc = "load"
    /\ label_to_node' = BuildLabelIndex(0, <<>>)
    /\ pc' = "loop"
    /\ UNCHANGED <<prog, tree, species, guilds, results, visited, leaf_nodes,
                   mrca, li, current, total_pd, ops, call, leaf_set, rest,
                   exit_code, printed, out, dump_i, decoded, runs>>

\* one iteration of the benchmark loop: parse, resolve, compute, push_back
BenchGuild ==
    /\ prog = "bench" /\ pc = "loop"
    /\ Len(results) < MaxGuilds
    /\ \E labels \in SeqsUpTo(GuildLabels, MaxGuildLen) :
          LET nodes == ParseSpecies(JoinLabels(labels), <<>>)
              c == PdCall(nodes)
          IN /\ species' = Append(species, labels)
             /\ guilds' = Append(guilds, nodes)
             /\ call' = c
             /\ results' = Append(results, c.total_pd)
    /\ UNCHANGED <<prog, pc, tree, label_to_node, visited, leaf_nodes, mrca, li,
                   current, total_pd, ops, leaf_set, rest,
                   exit_code, printed, out, dump_i, decoded, runs>>

\* the guild file holds MaxGuilds records
BenchEnd ==
    /\ prog = "bench" /\ pc = "loop"
    /\ Len(species) = MaxGuilds
    /\ pc' = "done"
    /\ UNCHANGED <<prog, tree, label_to_node, species, guilds, results, visited,
                   leaf_nodes, mrca, li, current, total_pd, ops, call, leaf_set, rest,
                   exit_code, printed, out, dump_i, decoded, runs>>

\* ------------------------------------------------ calculate_faiths_pd_batch
Zeros == [i \in Nodes |-> 0]

BatchEntry ==
    /\ prog = "batch" /\ pc = "entry"
    /\ results' = <<>>
    /\ visited' = Zeros
    /\ pc' = "loop"
    /\ UNCHANGED <<prog, tree, label_to_node, species, guilds, leaf_nodes, mrca,
                   li, current, total_pd, ops, call, leaf_set, rest,
                   exit_code, printed, out, dump_i, decoded, runs>>

\* if (leaf_nodes.size() < 2) { results.push_back(0.0); continue; }
BatchSkipGuild ==
    /\ prog = "batch" /\ pc = "loop"
    /\ Len(guilds) < MaxGuilds
    /\ \E g \in SeqsUpTo(Leaves, MaxGuildLen) :
          /\ Len(g) < 2
          /\ leaf_nodes' = g
          /\ guilds' = Append(guilds, g)
    /\ ops' = 0
    /\ results' = Append(results, 0)
    /\ UNCHANGED <<prog, pc, tree, label_to_node, species, visited, mrca,
                   li, current, total_pd, call, leaf_set, rest,
                   exit_code, printed, out, dump_i, decoded, runs>>

\* mutant: the marker buffer is not reset before the guild
BatchBeginGuild_NoReset ==
    /\ prog = "batch" /\ pc = "loop"
    /\ Len(guilds) < MaxGuilds
    /\ \E g \in SeqsUpTo(Leaves, MaxGuildLen) :
          /\ Len(g) >= 2
          /\ leaf_nodes' = g
          /\ guilds' = Append(guilds, g)
          /\ mrca' = find_mrca(Range(g))
    /\ total_pd' = 0
    /\ ops' = 1
    /\ li' = 0
    /\ pc' = "for"
    /\ UNCHANGED <<prog, tree, label_to_node, species, results, visited, current,
                   call, leaf_set, rest,
                   exit_code, printed, out, dump_i, decoded, runs>>

\* mutant: the fill clears the entries of the leaves only
BatchBeginGuild_ResetLeavesOnly ==
    /\ prog = "batch" /\ pc = "loop"
    /\ Len(guilds) < MaxGuilds
    /\ \E g \in SeqsUpTo(Leaves, MaxGuildLen) :
          /\ Len(g) >= 2
          /\ leaf_nodes' = g
          /\ guilds' = Append(guilds, g)
          /\ mrca' = find_mrca(Range(g))
    /\ visited' = [i \in Nodes |-> IF is_leaf(i) THEN 0 ELSE visited[i]]
    /\ total_pd' = 0
    /\ ops' = 1 + get_num_nodes
    /\ li' = 0
    /\ pc' = "for"
    /\ UNCHANGED <<prog, tree, label_to_node, species, results, current, call, leaf_set, rest,
                   exit_code, printed, out, dump_i, decoded, runs>>

\* mutant: the MRCA is taken of the first two leaves only
BatchBeginGuild_MrcaOfFirstTwo ==
    /\ prog = "batch" /\ pc = "loop"
    /\ Len(guilds) < MaxGuilds
    /\ \E g \in SeqsUpTo(Leaves, MaxGuildLen) :
          /\ Len(g) >= 2
          /\ leaf_nodes' = g
          /\ guilds' = Append(guilds, g)
          /\ mrca' = find_mrca({g[1], g[2]})
    /\ visited' = Zeros
    /\ total_pd' = 0
    /\ ops' = 1 + get_num_nodes
    /\ li' = 0
    /\ pc' = "for"
    /\ UNCHANGED <<prog, tree, label_to_node, species, results, current, call, leaf_set, rest,
                   exit_code, printed, out, dump_i, decoded, runs>>

\* find_mrca, fill(visited, 0), total_pd = 0
BatchBeginGuild ==
    /\ prog = "batch" /\ pc = "loop"
    /\ Len(guilds) < MaxGuilds
    /\ \E g \in SeqsUpTo(Leaves, MaxGuildLen) :
          /\ Len(g) >= 2
          /\ leaf_nodes' = g
          /\ guilds' = Append(guilds, g)
          /\ mrca' = find_mrca(Range(g))
    /\ visited' = Zeros
    /\ total_pd' = 0
    /\ ops' = 1 + get_num_nodes
    /\ li' = 0
    /\ pc' = "for"
    /\ UNCHANGED <<prog, tree, label_to_node, species, results, current, call, leaf_set, rest,
                   exit_code, printed, out, dump_i, decoded, runs>>

\* for (CT_NODE_T leaf : leaf_nodes) { CT_NODE_T current = leaf;
BatchNextLeaf ==
    /\ prog = "batch" /\ pc = "for"
    /\ IF li < Len(leaf_nodes)
       THEN /\ current' = leaf_nodes[li + 1]
            /\ pc' = "while"
       ELSE /\ pc' = "push"
            /\ UNCHANGED current
    /\ UNCHANGED <<prog, tree, label_to_node, species, guilds, results, visited,
                   leaf_nodes, mrca, li, total_pd, ops, call, leaf_set, rest,
                   exit_code, printed, out, dump_i, decoded, runs>>

\* mutant: the walk goes through the MRCA and stops at its parent
BatchWhile_ThroughMrca ==
    /\ prog = "batch" /\ pc = "while"
    /\ IF current = get_parent(mrca)
       THEN /\ li' = li + 1
            /\ pc' = "for"
            /\ UNCHANGED <<visited, total_pd, current, ops>>
       ELSE IF current \notin Nodes
       THEN /\ pc' = "fault"
            /\ UNCHANGED <<visited, total_pd, current, ops, li>>
       ELSE /\ IF visited[current] = 0
               THEN /\ total_pd' = total_pd + get_edge_length(current)
                    /\ visited' = [visited EXCEPT ![current] = 1]
                    /\ ops' = ops + 3
               ELSE /\ ops' = ops + 1
                    /\ UNCHANGED <<total_pd, visited>>
            /\ current' = get_parent(current)
            /\ UNCHANGED <<pc, li>>
    /\ UNCHANGED <<prog, tree, label_to_node, species, guilds, results,
                   leaf_nodes, mrca, call, leaf_set, rest,
                   exit_code, printed, out, dump_i, decoded, runs>>

\* one test of the while condition and, when it holds, one pass of the body
BatchWhile ==
    /\ prog = "batch" /\ pc = "while"
    /\ IF current = mrca
       THEN /\ li' = li + 1
            /\ pc' = "for"
            /\ UNCHANGED <<visited, total_pd, current, ops>>
       ELSE IF current \notin Nodes
       THEN /\ pc' = "fault"
            /\ UNCHANGED <<visited, total_pd, current, ops, li>>
       ELSE /\ IF visited[current] = 0
               THEN /\ total_pd' = total_pd + get_edge_length(current)
                    /\ visited' = [visited EXCEPT ![current] = 1]
                    /\ ops' = ops + 3
               ELSE /\ ops' = ops + 1
                    /\ UNCHANGED <<total_pd, visited>>
            /\ current' = get_parent(current)
            /\ UNCHANGED <<pc, li>>
    /\ UNCHANGED <<prog, tree, label_to_node, species, guilds, results,
                   leaf_nodes, mrca, call, leaf_set, rest,
                   exit_code, printed, out, dump_i, decoded, runs>>

BatchPush ==
    /\ prog = "batch" /\ pc = "push"
    /\ results' = Append(results, total_pd)
    /\ pc' = "loop"
    /\ UNCHANGED <<prog, tree, label_to_node, species, guilds, visited, leaf_nodes,
                   mrca, li, current, total_pd, ops, call, leaf_set, rest,
                   exit_code, printed, out, dump_i, decoded, runs>>

\* the guilds vector holds MaxGuilds entries
BatchReturn ==
    /\ prog = "batch" /\ pc = "loop"
    /\ Len(guilds) = MaxGuilds
    /\ pc' = "done"
    /\ UNCHANGED <<prog, tree, label_to_node, species, guilds, results, visited,
                   leaf_nodes, mrca, li, current, total_pd, ops, call, leaf_set, rest,
                   exit_code, printed, out, dump_i, decoded, runs>>

\* ------------------------------------- command-line main and find_leaf_nodes
\* for (i = 0; i < num_nodes; i++) if (is_leaf(i) && label_set has label(i)) push i
RECURSIVE FindLeavesFrom(_, _, _)
FindLeavesFrom(i, label_set, nodes) ==
    IF i >= get_num_nodes THEN nodes
    ELSE FindLeavesFrom(i + 1, label_set,
            IF is_leaf(i) /\ get_label(i) \in label_set
            THEN Append(nodes, i)
            ELSE nodes)

find_leaf_nodes(species_labels) == FindLeavesFrom(0, Range(species_labels), <<>>)

\* if (argc < 3) { usage; return 1; }
CliUsage ==
    /\ prog = "cli" /\ pc = "start"
    /\ species' = <<>>
    /\ exit_code' = 1
    /\ pc' = "done"
    /\ UNCHANGED <<prog, tree, label_to_node, guilds, results, visited, leaf_nodes,
                   mrca, li, current, total_pd, ops, leaf_set, rest, printed, call, out, dump_i, decoded, runs>>

\* species_labels from argv; leaf_nodes = find_leaf_nodes(tree, species_labels)
CliFindLeaves ==
    /\ prog = "cli" /\ pc = "start"
    /\ \E labels \in SeqsUpTo(GuildLabels, MaxGuildLen) :
          /\ Len(labels) >= 1
          /\ species' = <<labels>>
          /\ guilds' = <<find_leaf_nodes(labels)>>
    /\ pc' = "found"
    /\ UNCHANGED <<prog, tree, label_to_node, results, visited, leaf_nodes, mrca,
                   li, current, total_pd, ops, leaf_set, rest, exit_code, printed,
                   call, out, dump_i, decoded, runs>>

\* if (leaf_nodes.size() < 2) { cerr << "Error: ..."; return 1; }
CliTooFew ==
    /\ prog = "cli" /\ pc = "found"
    /\ Len(guilds[1]) < 2
    /\ exit_code' = 1
    /\ pc' = "done"
    /\ UNCHANGED <<prog, tree, label_to_node, species, guilds, results, visited,
                   leaf_nodes, mrca, li, current, total_pd, ops, leaf_set, rest,
                   printed, call, out, dump_i, decoded, runs>>

\* faiths_pd = calculate_faiths_pd_optimized(...); cout << faiths_pd; return 0;
CliCalculate ==
    /\ prog = "cli" /\ pc = "found"
    /\ Len(guilds[1]) >= 2
    /\ call' = PdCall(guilds[1])
    /\ results' = <<call'.total_pd>>
    /\ printed' = <<call'.total_pd>>
    /\ exit_code' = 0
    /\ pc' = "done"
    /\ UNCHANGED <<prog, tree, label_to_node, species, guilds, visited, leaf_nodes,
                   mrca, li, current, total_pd, ops, leaf_set, rest, out, dump_i, decoded, runs>>

\* ------------------------------------------------------ dump_tree_structure
\* write_u32: the four bytes of the value in the order they lie in memory, which
\* on the little-endian targets the program is built for is least significant
\* first
write_u32(value) == [k \in 1..4 |-> (value \div Pow(256, k - 1)) % 256]

\* The IEEE-754 single-precision bit pattern of an integer-valued float.
RECURSIVE Log2Floor(_)
Log2Floor(v) == IF v <= 1 THEN 0 ELSE 1 + Log2Floor(v \div 2)

FloatBits(v) ==
    IF v = 0 THEN 0
    ELSE LET e == Log2Floor(v)
         IN (e + 127) * Pow(2, 23) + (v - Pow(2, e)) * Pow(2, 23 - e)

\* write_f32: the four bytes of the float, least significant first
write_f32(value) == write_u32(FloatBits(value))

\* mutant: the terminating NUL of c_str() is written too
write_string_WithNul(str) == write_u32(Len(str)) \o str \o <<0>>

\* write_string: the length as u32, then the characters
write_string(str) == write_u32(Len(str)) \o str

RECURSIVE WriteChildren(_, _)
WriteChildren(children, k) ==
    IF k > Len(children) THEN <<>>
    ELSE write_u32(children[k]) \o WriteChildren(children, k + 1)

\* the body of the node loop for node i
WriteNode(i) ==
    write_u32(get_parent(i))
        \o write_u32(Len(get_children(i)))
        \o WriteChildren(get_children(i), 1)
        \o write_string(get_label(i))
        \o write_f32(get_edge_length(i))

DumpHeader ==
    /\ prog = "dump" /\ pc = "header"
    /\ out' = write_u32(get_num_nodes) \o write_u32(get_num_leaves)
    /\ dump_i' = 0
    /\ pc' = "nodes"
    /\ UNCHANGED <<prog, tree, label_to_node, species, guilds, results, visited,
                   leaf_nodes, mrca, li, current, total_pd, ops, leaf_set, rest,
                   exit_code, printed, decoded, call, runs>>

DumpNode ==
    /\ prog = "dump" /\ pc = "nodes"
    /\ dump_i < get_num_nodes
    /\ out' = out \o WriteNode(dump_i)
    /\ dump_i' = dump_i + 1
    /\ UNCHANGED <<prog, pc, tree, label_to_node, species, guilds, results, visited,
                   leaf_nodes, mrca, li, current, total_pd, ops, leaf_set, rest,
                   exit_code, printed, decoded, call, runs>>

DumpClose ==
    /\ prog = "dump" /\ pc = "nodes"
    /\ dump_i >= get_num_nodes
    /\ exit_code' = 0
    /\ pc' = "written"
    /\ UNCHANGED <<prog, tree, label_to_node, species, guilds, results, visited,
                   leaf_nodes, mrca, li, current, total_pd, ops, leaf_set, rest,
                   printed, out, dump_i, decoded, call, runs>>

\* --------------------------------------- a reader of the interchange format
NotDecoded == [ok |-> FALSE, pos |-> 0]

\* a u32 from four bytes, least significant first (as the signed integer with
\* the same 32 bits)
read_u32(bytes, pos) ==
    bytes[pos + 1] + 256 * bytes[pos + 2] + 65536 * bytes[pos + 3]
        + 16777216 * (IF bytes[pos + 4] >= 128 THEN bytes[pos + 4] - 256
                      ELSE bytes[pos + 4])

\* the integer value of a single-precision bit pattern (of an integer-valued float)
FloatOfBits(bits) ==
    IF bits = 0 THEN 0
    ELSE LET e == (bits \div Pow(2, 23)) - 127
             m == Pow(2, 23) + (bits % Pow(2, 23))
         IN IF e >= 23 THEN m * Pow(2, e - 23) ELSE m \div Pow(2, 23 - e)

RECURSIVE ReadChildren(_, _, _)
ReadChildren(bytes, pos, k) ==
    IF k = 0 THEN <<>>
    ELSE <<read_u32(bytes, pos)>> \o ReadChildren(bytes, pos + 4, k - 1)

\* one node record starting at pos; ok is FALSE when the stream is too short
ReadNode(bytes, pos) ==
    IF pos + 8 > Len(bytes) THEN [ok |-> FALSE, pos |-> pos]
    ELSE LET par == read_u32(bytes, pos)
             nch == read_u32(bytes, pos + 4)
             p1 == pos + 8 + 4 * nch
         IN IF nch < 0 \/ p1 + 4 > Len(bytes) THEN [ok |-> FALSE, pos |-> pos]
            ELSE LET len == read_u32(bytes, p1)
                     p2 == p1 + 4 + len
                 IN IF len < 0 \/ p2 + 4 > Len(bytes) THEN [ok |-> FALSE, pos |-> pos]
                    ELSE [ok |-> TRUE,
                          pos |-> p2 + 4,
                          parent |-> par,
                          children |-> ReadChildren(bytes, pos + 8, nch),
                          label |-> SubSeq(bytes, p1 + 5, p2),
                          edge_length |-> FloatOfBits(read_u32(bytes, p2))]

RECURSIVE ReadNodes(_, _, _, _)
ReadNodes(bytes, pos, n, acc) ==
    IF Len(acc) = n THEN [ok |-> TRUE, pos |-> pos, nodes |-> acc]
    ELSE LET r == ReadNode(bytes, pos)
         IN IF ~r.ok THEN [ok |-> FALSE, pos |-> pos, nodes |-> acc]
            ELSE ReadNodes(bytes, r.pos, n,
                           Append(acc, [parent |-> r.parent, children |-> r.children,
                                        label |-> r.label,
                                        edge_length |-> r.edge_length]))

decode(bytes) ==
    IF Len(bytes) < 8 THEN NotDecoded
    ELSE LET n == read_u32(bytes, 0)
             r == ReadNodes(bytes, 8, n, <<>>)
         IN IF n < 0 \/ ~r.ok THEN NotDecoded
            ELSE [ok |-> TRUE,
                  pos |-> r.pos,
                  num_nodes |-> n,
                  num_leaves |-> read_u32(bytes, 4),
                  parent |-> [i \in 0..n-1 |-> r.nodes[i + 1].parent],
                  children |-> [i \in 0..n-1 |-> r.nodes[i + 1].children],
                  label |-> [i \in 0..n-1 |-> r.nodes[i + 1].label],
                  edge_length |-> [i \in 0..n-1 |-> r.nodes[i + 1].edge_length]]

Decode ==
    /\ prog = "dump" /\ pc = "written"
    /\ decoded' = decode(out)
    /\ pc' = "decoded"
    /\ UNCHANGED <<prog, tree, label_to_node, species, guilds, results, visited,
                   leaf_nodes, mrca, li, current, total_pd, ops, leaf_set, rest,
                   exit_code, printed, out, dump_i, call, runs>>

\* The trees the dump is run on: the edge lengths also take values that are 0
\* and values that are no power of two.
DumpTrees ==
    UNION {{MkTree(n, p, e) :
               p \in ParentMaps(n),
               e \in EdgeLengthChoices(n)
                        \cup {[i \in 0..n-1 |-> 2 * i + c] : c \in 0..MaxLen}} :
           n \in 1..MaxNodes}

\* ------------------------------------------------- find_mrca, step by step
\* current = pick any element of leaf_ids
MrcaPick ==
    /\ prog = "mrca" /\ pc = "pick"
    /\ \E S \in SUBSET Leaves :
          /\ S # {} /\ Cardinality(S) <= MaxGuildLen
          /\ leaf_set' = S
          /\ \E x \in S :
                /\ mrca' = x
                /\ rest' = S \ {x}
    /\ pc' = "fold"
    /\ UNCHANGED <<prog, tree, label_to_node, species, guilds, results, visited,
                   leaf_nodes, li, current, total_pd, ops, call,
                   exit_code, printed, out, dump_i, decoded, runs>>

\* for each remaining leaf L, in any order: current = pairwise ancestor(current, L)
MrcaFold ==
    /\ prog = "mrca" /\ pc = "fold"
    /\ \E L \in rest :
          /\ mrca' = PairwiseAncestor(mrca, L)
          /\ rest' = rest \ {L}
    /\ UNCHANGED <<prog, pc, tree, label_to_node, species, guilds, results, visited,
                   leaf_nodes, li, current, total_pd, ops, leaf_set, call,
                   exit_code, printed, out, dump_i, decoded, runs>>

MrcaReturn ==
    /\ prog = "mrca" /\ pc = "fold"
    /\ rest = {}
    /\ pc' = "done"
    /\ UNCHANGED <<prog, tree, label_to_node, species, guilds, results, visited,
                   leaf_nodes, mrca, li, current, total_pd, ops, leaf_set, rest, call,
                   exit_code, printed, out, dump_i, decoded, runs>>

\* ------------------------------------- benchmark_pd_calculation_only
\* What a variant returned, the nodes it marked, and whether its walk left the
\* tree.
VariantResult(pd, marked, fault) == [total_pd |-> pd, marked |-> marked, fault |-> fault]

\* ORIGINAL: visited is a hash set of node ids
\* mutant: the insert is missing
RECURSIVE WalkOriginal_NoInsert(_, _, _)
WalkOriginal_NoInsert(st, m, cur) ==
    IF cur = m THEN st
    ELSE IF cur = NULL_NODE THEN [st EXCEPT !.fault = TRUE]
    ELSE WalkOriginal_NoInsert(
             IF cur \notin st.visited
             THEN [st EXCEPT !.total_pd = @ + get_edge_length(cur)]
             ELSE st,
             m, get_parent(cur))

RECURSIVE WalkOriginal(_, _, _)
WalkOriginal(st, m, cur) ==
    IF cur = m THEN st
    ELSE IF cur = NULL_NODE THEN [st EXCEPT !.fault = TRUE]
    ELSE WalkOriginal(
             IF cur \notin st.visited
             THEN [st EXCEPT !.total_pd = @ + get_edge_length(cur),
                             !.visited = @ \cup {cur}]
             ELSE st,
             m, get_parent(cur))

RECURSIVE LeavesOriginal(_, _, _, _)
LeavesOriginal(st, m, leaves, i) ==
    IF i > Len(leaves) \/ st.fault THEN st
    ELSE LeavesOriginal(WalkOriginal(st, m, leaves[i]), m, leaves, i + 1)

calculate_faiths_pd_original(leaves) ==
    IF Len(leaves) < 2 THEN VariantResult(0, {}, FALSE)
    ELSE LET m == find_mrca(Range(leaves))
             st == LeavesOriginal([total_pd |-> 0, visited |-> {}, fault |-> FALSE],
                                  m, leaves, 1)
         IN VariantResult(st.total_pd, st.visited, st.fault)

\* VECTORBOOL: visited is a vector<bool> of num_nodes entries
RECURSIVE WalkVectorBool(_, _, _)
WalkVectorBool(st, m, cur) ==
    IF cur = m THEN st
    ELSE IF cur = NULL_NODE THEN [st EXCEPT !.fault = TRUE]
    ELSE WalkVectorBool(
             IF ~st.visited[cur]
             THEN [st EXCEPT !.total_pd = @ + get_edge_length(cur),
                             !.visited[cur] = TRUE]
             ELSE st,
             m, get_parent(cur))

RECURSIVE LeavesVectorBool(_, _, _, _)
LeavesVectorBool(st, m, leaves, i) ==
    IF i > Len(leaves) \/ st.fault THEN st
    ELSE LeavesVectorBool(WalkVectorBool(st, m, leaves[i]), m, leaves, i + 1)

calculate_faiths_pd_vectorbool(leaves) ==
    IF Len(leaves) < 2 THEN VariantResult(0, {}, FALSE)
    ELSE LET m == find_mrca(Range(leaves))
             st == LeavesVectorBool([total_pd |-> 0,
                                     visited |-> [i \in Nodes |-> FALSE],
                                     fault |-> FALSE],
                                    m, leaves, 1)
         IN VariantResult(st.total_pd, {i \in Nodes : st.visited[i]}, st.fault)

\* VECTORUINT8: visited is a vector<uint8_t> of num_nodes entries
RECURSIVE WalkVectorUint8(_, _, _)
WalkVectorUint8(st, m, cur) ==
    IF cur = m THEN st
    ELSE IF cur = NULL_NODE THEN [st EXCEPT !.fault = TRUE]
    ELSE WalkVectorUint8(
             IF st.visited[cur] = 0
             THEN [st EXCEPT !.total_pd = @ + get_edge_length(cur),
                             !.visited[cur] = 1]
             ELSE st,
             m, get_parent(cur))

RECURSIVE LeavesVectorUint8(_, _, _, _)
LeavesVectorUint8(st, m, leaves, i) ==
    IF i > Len(leaves) \/ st.fault THEN st
    ELSE LeavesVectorUint8(WalkVectorUint8(st, m, leaves[i]), m, leaves, i + 1)

calculate_faiths_pd_vectoruint8(leaves) ==
    IF Len(leaves) < 2 THEN VariantResult(0, {}, FALSE)
    ELSE LET m == find_mrca(Range(leaves))
             st == LeavesVectorUint8([total_pd |-> 0,
                                      visited |-> [i \in Nodes |-> 0],
                                      fault |-> FALSE],
                                     m, leaves, 1)
         IN VariantResult(st.total_pd, {i \in Nodes : st.visited[i] # 0}, st.fault)

\* main: result1 = calculate_faiths_pd_original(tree, leaf_nodes)
RunOriginal ==
    /\ prog = "pdonly" /\ pc = "original"
    /\ runs' = Append(runs, calculate_faiths_pd_original(leaf_nodes))
    /\ pc' = "vectorbool"
    /\ UNCHANGED <<prog, tree, label_to_node, species, guilds, results, visited,
                   leaf_nodes, mrca, li, current, total_pd, ops, leaf_set, rest,
                   exit_code, printed, out, dump_i, decoded, call>>

\* main: result2 = calculate_faiths_pd_vectorbool(tree, leaf_nodes)
RunVectorBool ==
    /\ prog = "pdonly" /\ pc = "vectorbool"
    /\ runs' = Append(runs, calculate_faiths_pd_vectorbool(leaf_nodes))
    /\ pc' = "vectoruint8"
    /\ UNCHANGED <<prog, tree, label_to_node, species, guilds, results, visited,
                   leaf_nodes, mrca, li, current, total_pd, ops, leaf_set, rest,
                   exit_code, printed, out, dump_i, decoded, call>>

\* main: result3 = calculate_faiths_pd_vectoruint8(tree, leaf_nodes)
RunVectorUint8 ==
    /\ prog = "pdonly" /\ pc = "vectoruint8"
    /\ runs' = Append(runs, calculate_faiths_pd_vectoruint8(leaf_nodes))
    /\ pc' = "report"
    /\ UNCHANGED <<prog, tree, label_to_node, species, guilds, results, visited,
                   leaf_nodes, mrca, li, current, total_pd, ops, leaf_set, rest,
                   exit_code, printed, out, dump_i, decoded, call>>

\* main: "Faith's PD value: " << result1 << " (all versions)"
PdOnlyReport ==
    /\ prog = "pdonly" /\ pc = "report"
    /\ printed' = <<runs[1].total_pd>>
    /\ exit_code' = 0
    /\ pc' = "done"
    /\ UNCHANGED <<prog, tree, label_to_node, species, guilds, results, visited,
                   leaf_nodes, mrca, li, current, total_pd, ops, leaf_set, rest,
                   out, dump_i, decoded, runs, call>>

\* ------------------------------------------------------------ the system
Init ==
    /\ prog \in {"bench", "batch", "mrca", "cli", "dump", "pdonly"}
    /\ pc = CASE prog = "batch" -> "entry"
              [] prog = "bench" -> "load"
              [] prog = "mrca" -> "pick"
              [] prog = "cli" -> "start"
              [] prog = "dump" -> "header"
              [] prog = "pdonly" -> "original"
    /\ tree \in IF prog = "dump" THEN DumpTrees ELSE Trees
    /\ label_to_node = <<>>
    /\ species = <<>>
    /\ guilds = <<>>
    /\ results = <<>>
    /\ visited = <<>>
    /\ leaf_nodes \in IF prog = "pdonly" THEN SeqsUpTo(Leaves, MaxGuildLen) ELSE {<<>>}
    /\ runs = <<>>
    /\ mrca = NULL_NODE
    /\ li = 0
    /\ current = NULL_NODE
    /\ total_pd = 0
    /\ ops = 0
    /\ leaf_set = {}
    /\ rest = {}
    /\ exit_code = NULL_NODE
    /\ printed = <<>>
    /\ out = <<>>
    /\ dump_i = 0
    /\ decoded = NotDecoded
    /\ call = NoCall

Next ==
    \/ BenchBuildIndex
    \/ BenchGuild
    \/ BenchEnd
    \/ BatchEntry
    \/ BatchSkipGuild
    \/ BatchBeginGuild
    \/ BatchNextLeaf
    \/ BatchWhile
    \/ BatchPush
    \/ BatchReturn
    \/ MrcaPick
    \/ MrcaFold
    \/ MrcaReturn
    \/ CliUsage
    \/ CliFindLeaves
    \/ CliTooFew
    \/ CliCalculate
    \/ DumpHeader
    \/ DumpNode
    \/ DumpClose
    \/ Decode
    \/ RunOriginal
    \/ RunVectorBool
    \/ RunVectorUint8
    \/ PdOnlyReport

Spec == Init /\ [][Next]_vars

\* The tree of the worked example: root R = 0 with children A = 1 and B = 2;
\* A has edge length 2 and the leaf children X = 3 and Y = 4 of edge length 1
\* each; B is a leaf of edge length 3.
ExampleTree ==
    MkTree(5,
           [i \in 0..4 |-> <<NULL_NODE, 0, 0, 1, 1>>[i + 1]],
           [i \in 0..4 |-> <<0, 2, 3, 1, 1>>[i + 1]])

\* every program started on the tree of the worked example
InitExample ==
    /\ prog \in {"bench", "batch", "mrca", "cli", "dump", "pdonly"}
    /\ pc = CASE prog = "batch" -> "entry"
              [] prog = "bench" -> "load"
              [] prog = "mrca" -> "pick"
              [] prog = "cli" -> "start"
              [] prog = "dump" -> "header"
              [] prog = "pdonly" -> "original"
    /\ tree = ExampleTree
    /\ label_to_node = <<>>
    /\ species = <<>>
    /\ guilds = <<>>
    /\ results = <<>>
    /\ visited = <<>>
    /\ leaf_nodes \in IF prog = "pdonly" THEN SeqsUpTo(Leaves, MaxGuildLen) ELSE {<<>>}
    /\ runs = <<>>
    /\ mrca = NULL_NODE
    /\ li = 0
    /\ current = NULL_NODE
    /\ total_pd = 0
    /\ ops = 0
    /\ leaf_set = {}
    /\ rest = {}
    /\ exit_code = NULL_NODE
    /\ printed = <<>>
    /\ out = <<>>
    /\ dump_i = 0
    /\ decoded = NotDecoded
    /\ call = NoCall

SpecExample == InitExample /\ [][Next]_vars

\* ================================================================ claims
\* The MRCA of a set of nodes, by its definition.
TheMrca(S) == CHOOSE a \in Nodes : IsDeepestCommonAncestor(a, S)

\* The nodes on some listed leaf's parent chain, from the leaf up to the MRCA
\* (exclusive).
SpannedNodes(leaves) ==
    UNION {PathBelow(x, TheMrca(Range(leaves))) : x \in Range(leaves)}

SpannedLength(leaves) == SumOver(tree.edge_length, SpannedNodes(leaves))

\* The batch function stands between two guilds.
BatchBetweenGuilds == prog = "batch" /\ pc \in {"loop", "done"}

\* C1: for a leaf list of at least 2 entries the PD returned, by the single
\* computation and for each guild of the batch, is the sum of edge_length over
\* the distinct nodes on the leaves' parent chains up to the MRCA (exclusive),
\* each counted once.
C1_UnionOfPathsOnce ==
    /\ prog = "bench" =>
          \A i \in 1..Len(results) :
              Len(guilds[i]) >= 2 => results[i] = SpannedLength(guilds[i])
    /\ BatchBetweenGuilds =>
          \A i \in 1..Len(results) :
              Len(guilds[i]) >= 2 => results[i] = SpannedLength(guilds[i])

\* two listed leaves share a node below the MRCA, and its edge has length
C1_Witness ==
    /\ prog = "bench"
    /\ \E i \in 1..Len(results) :
          LET m == TheMrca(Range(guilds[i])) IN
          /\ Len(guilds[i]) >= 2
          /\ \E x, y \in Range(guilds[i]) :
                /\ x # y
                /\ \E z \in PathBelow(x, m) \cap PathBelow(y, m) :
                      get_edge_length(z) > 0
          /\ results[i] > 0

\* C2: the pairwise fold, whichever element is picked first and in whichever
\* order the rest are folded in, ends on a common ancestor (or the element
\* itself) of every leaf of the set that is not properly above another one; for
\* a one-element set it ends on that element.
C2_FoldGivesDeepestCommonAncestor ==
    (prog = "mrca" /\ pc = "done") =>
        /\ IsDeepestCommonAncestor(mrca, leaf_set)
        /\ mrca = find_mrca(leaf_set)
        /\ Cardinality(leaf_set) = 1 => mrca \in leaf_set

\* a fold over three leaves whose MRCA is not the root
C2_Witness ==
    /\ prog = "mrca" /\ pc = "done"
    /\ Cardinality(leaf_set) = 3
    /\ mrca # 0

\* C3: the batch returns one entry per guild, in input order, and the i-th entry
\* is what the single-guild computation returns for the i-th guild alone,
\* whatever the guilds before it left in the shared marker buffer.
C3_BatchEqualsSingle ==
    prog = "batch" =>
        /\ BatchBetweenGuilds => Len(results) = Len(guilds)
        /\ Len(results) <= Len(guilds)
        /\ \A i \in 1..Len(results) :
              results[i] = calculate_faiths_pd_optimized(guilds[i])

\* two guilds of the batch walk over a common node, the first one marking it
C3_Witness ==
    /\ prog = "batch" /\ pc = "done"
    /\ Len(results) = 2
    /\ Len(guilds[1]) >= 2 /\ Len(guilds[2]) >= 2
    /\ SpannedNodes(guilds[1]) \cap SpannedNodes(guilds[2]) # {}
    /\ results[2] > 0

\* C4: a leaf list of 0 or 1 entries gives exactly 0, and nothing of the tree was
\* used for it: no find_mrca call, no parent or edge-length read, no marker
\* write.
C4_ShortListZeroUntouched ==
    /\ prog \in {"bench", "batch"} =>
          \A i \in 1..Len(results) : Len(guilds[i]) < 2 => results[i] = 0
    /\ (prog = "bench" /\ Len(guilds) > 0 /\ Len(guilds[Len(guilds)]) < 2) =>
          /\ call.mrca_calls = 0
          /\ call.reads = 0
          /\ call.writes = 0
    /\ (BatchBetweenGuilds /\ Len(guilds) > 0 /\ Len(guilds[Len(guilds)]) < 2) =>
          ops = 0

\* a one-leaf guild has been evaluated after a guild that was walked
C4_Witness ==
    /\ prog = "batch" /\ pc = "loop"
    /\ Len(results) = 2
    /\ Len(guilds[1]) >= 2 /\ results[1] > 0
    /\ Len(guilds[2]) = 1

IsPermutation(s, t) ==
    /\ Len(s) = Len(t)
    /\ \A x \in Range(s) \cup Range(t) :
          Cardinality({k \in 1..Len(s) : s[k] = x})
              = Cardinality({k \in 1..Len(t) : t[k] = x})

\* C5: two leaf lists that are reorderings of each other get the same PD.
C5_PermutationInvariant ==
    prog = "bench" =>
        \A i, j \in 1..Len(results) :
            IsPermutation(guilds[i], guilds[j]) => results[i] = results[j]

\* a three-leaf guild and a different ordering of it have been evaluated
C5_Witness ==
    /\ prog = "bench"
    /\ Len(results) = 2
    /\ Len(guilds[1]) = 3
    /\ Cardinality(Range(guilds[1])) = 3
    /\ IsPermutation(guilds[1], guilds[2])
    /\ guilds[1][1] # guilds[2][1]
    /\ results[1] > 0

\* C6: with non-negative edge lengths, adding a leaf that is not in the set never
\* lowers the PD (the MRCA being recomputed), from 0 leaves on.
C6_Monotone ==
    (prog = "bench" /\ \A n \in Nodes : get_edge_length(n) >= 0) =>
        \A i, j \in 1..Len(results) :
            (\E x \in Leaves \ Range(guilds[i]) :
                 Range(guilds[j]) = Range(guilds[i]) \cup {x})
                => results[j] >= results[i]

\* a two-leaf guild and the same guild with a third leaf that moves the MRCA up
C6_Witness ==
    /\ prog = "bench"
    /\ Len(results) = 2
    /\ Cardinality(Range(guilds[1])) = 2
    /\ \E x \in Leaves \ Range(guilds[1]) :
          Range(guilds[2]) = Range(guilds[1]) \cup {x}
    /\ TheMrca(Range(guilds[1])) # TheMrca(Range(guilds[2]))
    /\ results[2] > results[1]
    /\ results[1] > 0

\* the labels of a guild that the tree has
KnownOnly(labels) == SelectSeq(labels, LAMBDA l : \E i \in Leaves : get_label(i) = l)

\* C8: labels that are not in the tree are dropped and the guild is still
\* evaluated: every guild read has a result, and a guild gets the leaf ids and
\* the PD of the same guild with its unknown labels removed.
C8_UnknownLabelsDropped ==
    /\ prog = "bench" =>
          /\ Len(results) = Len(species)
          /\ \A i, j \in 1..Len(results) :
                species[j] = KnownOnly(species[i]) =>
                    guilds[j] = guilds[i] /\ results[j] = results[i]
    /\ (prog = "cli" /\ Len(guilds) = 1) =>
          guilds[1] = find_leaf_nodes(KnownOnly(species[1]))

\* a guild with an unknown label between two known ones, then the same guild
\* without it
C8_Witness ==
    /\ prog = "bench"
    /\ Len(results) = 2
    /\ Len(species[1]) = 3
    /\ species[1][2] = UnknownLabel
    /\ species[2] = KnownOnly(species[1])
    /\ Len(species[2]) = 2
    /\ results[1] > 0

\* C9 (as claimed): a guild that resolves to fewer than two leaves yields the
\* ordinary result 0.0 and no error, in every entry point.
C9_TooFewIsZeroNotError ==
    /\ prog \in {"bench", "batch"} =>
          \A i \in 1..Len(results) : Len(guilds[i]) < 2 => results[i] = 0
    /\ (prog = "cli" /\ pc = "done" /\ Len(guilds) = 1 /\ Len(guilds[1]) < 2) =>
          exit_code = 0 /\ printed = <<0>>

\* C10 (as claimed): the leaf ids resolved for a guild hold each node id at most
\* once.
C10_ResolvedIdsDistinct ==
    prog \in {"bench", "cli"} =>
        \A i \in 1..Len(guilds) : Cardinality(Range(guilds[i])) = Len(guilds[i])

\* C7: reading back the bytes the dump wrote gives the same node count and leaf
\* count and, for every node, the same parent, the same children in the same
\* order, the same label and the same edge length, and the reader stops exactly
\* at the end of what was written.
C7_DumpRoundTrip ==
    (prog = "dump" /\ pc = "decoded") =>
        /\ decoded.ok
        /\ decoded.pos = Len(out)
        /\ decoded.num_nodes = get_num_nodes
        /\ decoded.num_leaves = get_num_leaves
        /\ decoded.parent = tree.parent
        /\ decoded.children = tree.children
        /\ decoded.label = tree.label
        /\ decoded.edge_length = tree.edge_length

\* a dumped tree with a node of two children, labelled leaves and an edge length
\* that is not a power of two
C7_Witness ==
    /\ prog = "dump" /\ pc = "decoded"
    /\ get_num_nodes = MaxNodes
    /\ \E i \in Nodes : Len(get_children(i)) = 2
    /\ \E i \in Nodes : get_edge_length(i) = 6
    /\ \E i \in Nodes : get_edge_length(i) = 0
    /\ decoded.parent[0] = NULL_NODE

\* C11: on the tree of the worked example (R = 0, A = 1, B = 2, X = 3, Y = 4)
\* the guild {X, Y} has MRCA A and PD 2, the guild {X, B} has MRCA R and PD 6,
\* and the guild {X} has PD 0, in the single computation and in the batch.
C11_WorkedExample ==
    LET R == 0  A == 1  B == 2  X == 3  Y == 4
        IsGuild(g, S) == Len(g) = Cardinality(S) /\ Range(g) = S
    IN
    tree = ExampleTree =>
        /\ (prog = "bench" /\ guilds # <<>>) =>
              LET g == guilds[Len(guilds)]
                  pd == results[Len(results)]
              IN /\ IsGuild(g, {X, Y}) => (call.mrca = A /\ pd = 2)
                 /\ IsGuild(g, {X, B}) => (call.mrca = R /\ pd = 6)
                 /\ IsGuild(g, {X}) => pd = 0
        /\ (prog = "batch" /\ pc \in {"for", "while", "push"}) =>
              /\ IsGuild(leaf_nodes, {X, Y}) => mrca = A
              /\ IsGuild(leaf_nodes, {X, B}) => mrca = R
        /\ BatchBetweenGuilds =>
              \A i \in 1..Len(results) :
                  /\ IsGuild(guilds[i], {X, Y}) => results[i] = 2
                  /\ IsGuild(guilds[i], {X, B}) => results[i] = 6
                  /\ IsGuild(guilds[i], {X}) => results[i] = 0

\* the benchmark has evaluated {X, Y} and then {X, B} on the example tree
C11_Witness ==
    /\ tree = ExampleTree
    /\ prog = "bench"
    /\ guilds = <<(<<3, 4>>), (<<3, 2>>)>>
    /\ results = <<2, 6>>
    /\ call.mrca = 0

\* The walk of the batch function stands at the test of its while loop.
AtWhile == prog = "batch" /\ pc = "while"

\* the walk never left the tree: no call of the single function faulted, the
\* batch function never indexed outside [0, num_nodes), and at every test of
\* the while condition current is a node that has the MRCA on its parent chain
WalkInsideTree ==
    /\ ~call.fault
    /\ pc # "fault"
    /\ AtWhile =>
          /\ current # NULL_NODE
          /\ current \in Nodes
          /\ mrca \in AncestorsOrSelf(current)

\* the number of steps from x up to m along the parent chain (0 when m is not
\* on the chain)
StepsBelow(x, m) == Cardinality(PathBelow(x, m))

\* a pass of the while body moves current to its parent, which is one step
\* nearer to the MRCA; the loop is left only with current = mrca
WalkStep ==
    /\ (AtWhile /\ current # mrca) =>
          /\ AtWhile'
          /\ current' = get_parent(current)
          /\ StepsBelow(current', mrca') = StepsBelow(current, mrca) - 1
    /\ (AtWhile /\ ~AtWhile') => current = mrca

\* C12: for a leaf list of at least 2 entries the walk of every leaf never takes
\* the parent of the root (current is never the no-parent sentinel and always
\* an id in [0, num_nodes)), and it terminates by reaching the MRCA that
\* find_mrca returned: every pass of the loop body brings current one step
\* nearer to the MRCA, and the loop is left only at the MRCA.
C12_WalkReachesMrca == []WalkInsideTree /\ [][WalkStep]_vars

\* a walk of at least two steps has arrived at an MRCA that is not the root,
\* so the parent chain goes on above the point where the walk stopped
C12_Witness ==
    /\ AtWhile
    /\ current = mrca
    /\ get_parent(mrca) # NULL_NODE
    /\ get_parent(leaf_nodes[li + 1]) # mrca
    /\ leaf_nodes[li + 1] # mrca

\* The batch function is about to walk the first leaf of a guild.
WalkBegins == prog = "batch" /\ pc = "for" /\ li = 0

\* every marker is 0 when a guild's walk begins, and the buffer has num_nodes
\* entries from its allocation on
MarkersClear ==
    /\ WalkBegins => \A i \in Nodes : visited[i] = 0
    /\ (prog = "batch" /\ pc # "entry") => DOMAIN visited = Nodes

\* once allocated, the buffer keeps its length
BufferLengthKept ==
    (prog = "batch" /\ pc # "entry") => DOMAIN visited' = DOMAIN visited

\* C13: in the batch function every entry of the shared marker buffer is 0 at
\* the moment the walk of any guild begins, whatever guilds came before it
\* (walked or skipped), and the buffer, allocated once with num_nodes entries,
\* never changes its length.
C13_MarkersClearAtWalkStart == []MarkersClear /\ [][BufferLengthKept]_vars

\* the walk of the second guild begins after a first guild whose walk marked
\* nodes and gave a positive PD
C13_Witness ==
    /\ WalkBegins
    /\ Len(guilds) = 2
    /\ Len(guilds[1]) >= 2
    /\ results = <<SpannedLength(guilds[1])>>
    /\ results[1] > 0
    /\ \A i \in Nodes : visited[i] = 0

\* the edge lengths with the root's replaced by r
RootEdgeSetTo(r) == [tree.edge_length EXCEPT ![0] = r]

\* the nodes strictly below m
ProperDescendants(m) == {i \in Nodes : i # m /\ m \in AncestorsOrSelf(i)}

\* With MRCA m, markers v and running total t: the root and m are unmarked,
\* every marked node lies strictly below m, and t is the sum of the marked
\* nodes' edges whatever is stored as the root's edge length.
OnlyBelowMrca(m, v, t) ==
    LET marked == {i \in Nodes : v[i] = 1} IN
    /\ v[0] = 0
    /\ v[m] = 0
    /\ marked \subseteq ProperDescendants(m)
    /\ \A r \in {0, get_edge_length(0), LenBase} : t = SumOver(RootEdgeSetTo(r), marked)

\* C14: in every PD computation (the single function's call and each step of
\* the batch function's walk) neither the root nor the MRCA is ever marked and
\* neither's edge length is added: the total is the sum over marked nodes,
\* all proper descendants of the MRCA, and is the same whatever value is
\* stored as the root's edge length.
C14_RootAndMrcaExcluded ==
    /\ (prog = "bench" /\ call.mrca # NULL_NODE) =>
          OnlyBelowMrca(call.mrca, call.visited, call.total_pd)
    /\ (prog = "batch" /\ pc \in {"for", "while", "push"}) =>
          OnlyBelowMrca(mrca, visited, total_pd)

\* a guild's walk in the batch function has ended below an MRCA that is not the
\* root and has an edge of its own, with nodes marked, on a tree whose root
\* stores a non-zero edge length
C14_Witness ==
    /\ prog = "batch" /\ pc = "push"
    /\ mrca # 0
    /\ get_edge_length(mrca) > 0
    /\ get_edge_length(0) > 0
    /\ total_pd > 0
    /\ \E i \in Nodes : visited[i] = 1 /\ get_parent(i) = mrca

\* C15: for every tree and every leaf list the hash-set variant, the
\* vector<bool> variant and the vector<uint8_t> variant mark the same set of
\* nodes and return the same PD, so the one value the benchmark prints "for
\* all versions" is the result of each of them.
C15_MarkerVariantsAgree ==
    prog = "pdonly" =>
        /\ \A i, j \in 1..Len(runs) :
              /\ runs[i].total_pd = runs[j].total_pd
              /\ runs[i].marked = runs[j].marked
              /\ ~runs[i].fault
        /\ pc = "done" =>
              /\ Len(runs) = 3
              /\ \A i \in 1..3 : printed = <<runs[i].total_pd>>

\* all three variants have run on a list of three leaves whose walks share a
\* node, and the value has been printed
C15_Witness ==
    /\ prog = "pdonly" /\ pc = "done"
    /\ Len(leaf_nodes) = 3
    /\ Cardinality(runs[1].marked) >= 4
    /\ \E x \in runs[3].marked : ~is_leaf(x)
    /\ runs[2].total_pd > 0
    /\ printed = <<runs[3].total_pd>>

====
